---- MODULE Spec2Model ----
(***************************************************************************)
(* The forms of project/bforms.py over the entities of project/models.py.  *)
(*                                                                         *)
(* A table is a sequence of rows; a row's id is its index.  A value that   *)
(* may be Python's None is a set: {} is None, {v} is the value v.  Text    *)
(* that the code inspects character by character (shortname, username,    *)
(* password, project_name) is a sequence of one-character strings.         *)
(*                                                                         *)
(* A form is bound to submitted data, validated (every field in the order  *)
(* of declaration: the field's own clean, then the form's clean_<field>;   *)
(* then the form's clean(), whether or not a field failed) and, when no    *)
(* error was recorded, saved.  A field that failed is absent from          *)
(* cleaned_data; reading an absent key raises KeyError, which nothing      *)
(* catches.                                                                *)
(*                                                                         *)
(* A submission is one step.  Where the writes of a save(), or the check   *)
(* and the insert of a request, are looked at one by one, the requests     *)
(* that have started and not finished are the rows of inflight, each with  *)
(* the statement it executes next.                                         *)
(***************************************************************************)
EXTENDS Integers, Sequences, FiniteSets, TLC

VARIABLES users, profiles, projects, subscribed, invited,
          tasks, items, pages, revisions, last, inflight

vars == <<users, profiles, projects, subscribed, invited,
          tasks, items, pages, revisions, last, inflight>>

membership == <<users, profiles, projects, subscribed, invited>>
work == <<tasks, items>>
wiki == <<pages, revisions>>

(***************************************************************************)
(* Bounds of the model.                                                    *)
(***************************************************************************)
MaxUsers == 2
MaxProjects == 2
MaxInvites == 1
MaxTasks == 2
MaxItems == 2
MaxPages == 2
MaxRevisions == 4
MaxDate == 3
MaxTime == 2
MaxRequests == 2

(***************************************************************************)
(* max_length of the text fields.                                          *)
(***************************************************************************)
ShortnameMaxLength == 20
NameMaxLength == 200
UsernameMaxLength == 30
PasswordMaxLength == 30
ProjectNameMaxLength == 20
TaskNameMaxLength == 200

(***************************************************************************)
(* Text.                                                                   *)
(***************************************************************************)
Rep(c, n) == [i \in 1..n |-> c]

WordChars == {"a", "b", "1", "_"}

\* re.compile(r'^\w+$').search(s): one or more word characters up to the end
\* of the text, where $ also matches just before one final newline.
alnum_re(s) ==
    LET n == IF Len(s) > 0 /\ s[Len(s)] = "\n" THEN Len(s) - 1 ELSE Len(s)
    IN  n > 0 /\ \A i \in 1..n : s[i] \in WordChars

\* The ids of the rows of a table that satisfy Test.
Filter(table, Test(_)) == {i \in 1..Len(table) : Test(table[i])}

(***************************************************************************)
(* The fields' own clean.  A result is [ok, code, value].                  *)
(***************************************************************************)
Ok(v) == [ok |-> TRUE, code |-> "", value |-> v]
Err(c) == [ok |-> FALSE, code |-> c, value |-> <<>>]

\* DojoCharField(max_length = n, required = r)
CharField(raw, required, max_length) ==
    IF raw = <<>>
    THEN IF required THEN Err("required") ELSE Ok(<<>>)
    ELSE IF Len(raw) > max_length THEN Err("max_length") ELSE Ok(raw)

\* DojoChoiceField(choices = ...): the submitted value is one of the keys.
ChoiceField(raw, keys, blank) ==
    IF raw = blank THEN Err("required")
    ELSE IF raw \notin keys THEN Err("invalid_choice") ELSE Ok(raw)

(***************************************************************************)
(* Outcome of one submission.                                              *)
(***************************************************************************)
NON_FIELD_ERRORS == "__all__"

\* form: the form class; ctx: the objects it was constructed with; data: the
\* submitted data; errors: the (field, code) pairs of form.errors; fatal: an
\* exception left the form; saved: save() ran.
Outcome(form, ctx, data, v) ==
    [form |-> form, ctx |-> ctx, data |-> data, errors |-> v.errors,
     fatal |-> v.fatal, saved |-> ~v.fatal /\ v.errors = {}]

IsValid(v) == ~v.fatal /\ v.errors = {}

FieldErrors(name, r) == IF r.ok THEN {} ELSE {<<name, r.code>>}

(***************************************************************************)
(* Lookups.                                                                *)
(***************************************************************************)
\* User.objects.get(username = name): the ids of the matching rows.
UsersNamed(name) == Filter(users, LAMBDA u : u.username = name)

\* Project.objects.get(shortname = name)
ProjectsNamed(name) == Filter(projects, LAMBDA p : p.shortname = name)

\* user.inviteduser_set.get(user = user, project = project)
InvitesOf(u, p) == Filter(invited, LAMBDA r : r.user = u /\ r.project = p)

\* user.subscribeduser_set.get(user = user, project = project)
SubscriptionsOf(u, p) == Filter(subscribed, LAMBDA r : r.user = u /\ r.project = p)

\* [subs.user for subs in project.subscribeduser_set.all()], as usernames
SubscriberNames(p) ==
    {users[subscribed[i].user].username :
        i \in Filter(subscribed, LAMBDA r : r.project = p)}

\* A get() that is expected to find no row: none passes, one is the
\* validation error, several raise MultipleObjectsReturned, which the
\* except clause does not name.
ExpectNone(found, code, value) ==
    IF found = {} THEN Ok(value)
    ELSE IF Cardinality(found) = 1 THEN Err(code)
    ELSE Err("MultipleObjectsReturned")

Uncaught == {"MultipleObjectsReturned", "KeyError"}

(***************************************************************************)
(* UserCreationForm                                                        *)
(***************************************************************************)
UserCreationForm_isValidUsername(name) ==
    ExpectNone(UsersNamed(name), "taken", name)

UserCreationForm_clean_username(raw) ==
    LET f == CharField(raw, TRUE, UsernameMaxLength)
    IN  IF ~f.ok THEN f
        ELSE IF ~alnum_re(f.value) THEN Err("format")
        ELSE UserCreationForm_isValidUsername(f.value)

UserCreationForm_is_valid_shortname(name) ==
    ExpectNone(ProjectsNamed(name), "taken", name)

\* project_name is declared required = False; clean_project_name runs on
\* whatever the field returned, the empty text included.
UserCreationForm_clean_project_name(raw) ==
    LET f == CharField(raw, FALSE, ProjectNameMaxLength)
    IN  IF ~f.ok THEN f
        ELSE IF ~alnum_re(f.value) THEN Err("format")
        ELSE UserCreationForm_is_valid_shortname(f.value)

\* clean(): reads password1, then password2, from cleaned_data.
UserCreationForm_clean(p1, p2) ==
    IF ~p1.ok \/ ~p2.ok THEN Err("KeyError")
    ELSE IF p1.value # p2.value THEN Err("password_mismatch")
    ELSE Ok(<<>>)

UserCreationForm_full_clean(d) ==
    LET u  == UserCreationForm_clean_username(d.username)
        p1 == CharField(d.password1, TRUE, PasswordMaxLength)
        p2 == CharField(d.password2, TRUE, PasswordMaxLength)
        pn == UserCreationForm_clean_project_name(d.project_name)
        c  == UserCreationForm_clean(p1, p2)
        fieldErrors == FieldErrors("username", u) \cup FieldErrors("password1", p1)
                       \cup FieldErrors("password2", p2)
                       \cup FieldErrors("project_name", pn)
        all == fieldErrors \cup FieldErrors(NON_FIELD_ERRORS, c)
    IN  [errors |-> {e \in all : e[2] \notin Uncaught},
         fatal  |-> \E e \in all : e[2] \in Uncaught,
         cleaned |-> [username |-> u.value, password1 |-> p1.value]]

\* save(): User.objects.create_user(username, '', password1), then a profile.
UserCreationForm_save(cleaned) ==
    /\ users' = Append(users, [username |-> cleaned.username, email |-> <<>>])
    /\ profiles' = Append(profiles, [user |-> Len(users) + 1])

UsernameInputs == {<<"a">>, <<"b">>, <<"a", " ">>}
Password1Inputs == {<<>>, <<"p">>, <<"q">>}
Password2Inputs == {<<>>, <<"p">>}
ProjectNameInputs == {<<>>, <<"a">>, <<"a", " ">>}
ShortnameInputs ==
    {<<>>, <<"a">>, <<"b", "_">>, <<"a", " ">>, <<"a", "\n">>,
     Rep("a", ShortnameMaxLength + 1)}

UserCreationData ==
    [username : UsernameInputs, password1 : Password1Inputs,
     password2 : Password2Inputs, project_name : ProjectNameInputs]

UserCreationFormSubmit ==
    /\ Len(users) < MaxUsers
    /\ \E d \in UserCreationData :
          LET v == UserCreationForm_full_clean(d)
          IN  /\ IF IsValid(v)
                 THEN UserCreationForm_save(v.cleaned)
                 ELSE UNCHANGED <<users, profiles>>
              /\ last' = Outcome("UserCreationForm", [user |-> 0], d, v)
    /\ UNCHANGED <<projects, subscribed, invited, work, wiki, inflight>>

(***************************************************************************)
(* CreateProjectForm                                                       *)
(***************************************************************************)
\* A submitted date: nothing, text that is no date, or the date val.
RawDates ==
    [kind : {"empty", "bad"}, val : {0}] \cup [kind : {"date"}, val : 1..MaxDate]

\* DojoDateField(required = r): None for an empty optional field.
DateField(raw, required) ==
    IF raw.kind = "empty"
    THEN IF required THEN Err("required") ELSE Ok({})
    ELSE IF raw.kind = "bad" THEN Err("invalid")
    ELSE Ok({raw.val})

\* A uniqueness check that finds no project.
CreateProjectForm_is_valid_shortname_unchecked(name) == Ok(name)

CreateProjectForm_is_valid_shortname(name) ==
    ExpectNone(ProjectsNamed(name), "taken", name)

\* A clean_shortname that does not call is_valid_shortname.
CreateProjectForm_clean_shortname_format_only(raw) ==
    LET f == CharField(raw, TRUE, ShortnameMaxLength)
    IN  IF ~f.ok THEN f
        ELSE IF ~alnum_re(f.value) THEN Err("format")
        ELSE Ok(f.value)

CreateProjectForm_clean_shortname(raw) ==
    LET f == CharField(raw, TRUE, ShortnameMaxLength)
    IN  IF ~f.ok THEN f
        ELSE IF ~alnum_re(f.value) THEN Err("format")
        ELSE CreateProjectForm_is_valid_shortname(f.value)

CreateProjectForm_full_clean(d) ==
    LET sn == CreateProjectForm_clean_shortname(d.shortname)
        nm == CharField(d.name, TRUE, NameMaxLength)
        sd == DateField(d.start_date, TRUE)
        ed == DateField(d.end_date, FALSE)
        all == FieldErrors("shortname", sn) \cup FieldErrors("name", nm)
               \cup FieldErrors("start_date", sd) \cup FieldErrors("end_date", ed)
    IN  [errors |-> {e \in all : e[2] \notin Uncaught},
         fatal  |-> \E e \in all : e[2] \in Uncaught,
         cleaned |-> [shortname |-> sn.value, name |-> nm.value,
                      start_date |-> sd.value]]

\* save(): the project, then the owner's subscription.
CreateProjectForm_save(user, cleaned) ==
    /\ projects' = Append(projects,
          [shortname |-> cleaned.shortname, name |-> cleaned.name,
           owner |-> user, start_date |-> cleaned.start_date])
    /\ subscribed' = Append(subscribed,
          [user |-> user, project |-> Len(projects) + 1, group |-> "Owner"])

NameInputs == {<<>>, <<"n">>}

CreateProjectData ==
    [shortname : ShortnameInputs, name : NameInputs,
     start_date : {r \in RawDates : r.kind = "empty" \/ r.val = 1},
     end_date : {r \in RawDates : r.kind = "empty"}]

CreateProjectFormSubmit ==
    /\ Len(projects) < MaxProjects
    /\ \E user \in 1..Len(users), d \in CreateProjectData :
          LET v == CreateProjectForm_full_clean(d)
          IN  /\ IF IsValid(v)
                 THEN CreateProjectForm_save(user, v.cleaned)
                 ELSE UNCHANGED <<projects, subscribed>>
              /\ last' = Outcome("CreateProjectForm", [user |-> user], d, v)
    /\ UNCHANGED <<users, profiles, invited, work, wiki, inflight>>

(***************************************************************************)
(* InviteUserForm                                                          *)
(***************************************************************************)
\* models.options: (stored value, label) pairs.
options ==
    <<<<"OWN", "Owner">>, <<"PART", "Participant">>, <<"VIEW", "Viewer">>>>

OptionKeys == {options[i][1] : i \in 1..Len(options)}

InviteUserForm_already_invited(project, user, name) ==
    ExpectNone(InvitesOf(user, project), "already_invited", name)

InviteUserForm_already_subscribed(project, user, name) ==
    ExpectNone(SubscriptionsOf(user, project), "already_subscribed", name)

InviteUserForm_clean_username(project, raw) ==
    LET f == CharField(raw, TRUE, UsernameMaxLength)
        found == UsersNamed(f.value)
        user == CHOOSE u \in found : TRUE
        inv == InviteUserForm_already_invited(project, user, f.value)
    IN  IF ~f.ok THEN f
        ELSE IF found = {} THEN Err("no_such_user")
        ELSE IF Cardinality(found) > 1 THEN Err("MultipleObjectsReturned")
        ELSE IF ~inv.ok THEN inv
        ELSE InviteUserForm_already_subscribed(project, user, f.value)

\* group = DojoChoiceField(choices = options), then clean_group.
InviteUserForm_clean_group(raw) ==
    LET f == ChoiceField(raw, OptionKeys, "")
    IN  IF ~f.ok THEN f
        ELSE IF f.value \notin {"Owner", "Participant", "Viewer"}
        THEN Err("no_such_group")
        ELSE f

InviteUserForm_full_clean(project, d) ==
    LET un == InviteUserForm_clean_username(project, d.username)
        gr == InviteUserForm_clean_group(d.group)
        all == FieldErrors("username", un) \cup FieldErrors("group", gr)
    IN  [errors |-> {e \in all : e[2] \notin Uncaught},
         fatal  |-> \E e \in all : e[2] \in Uncaught,
         cleaned |-> [username |-> un.value, group |-> gr.value]]

InviteUserForm_save(project, cleaned) ==
    LET user == CHOOSE u \in UsersNamed(cleaned.username) : TRUE
    IN  invited' = Append(invited,
            [user |-> user, project |-> project, group |-> cleaned.group])

GroupInputs == {"", "OWN", "PART", "VIEW", "Owner", "Participant", "Viewer"}

InviteUserData == [username : UsernameInputs, group : GroupInputs]

InviteUserFormSubmit ==
    /\ Len(invited) < MaxInvites
    /\ \E project \in 1..Len(projects), d \in InviteUserData :
          LET v == InviteUserForm_full_clean(project, d)
          IN  /\ IF IsValid(v)
                 THEN InviteUserForm_save(project, v.cleaned)
                 ELSE UNCHANGED invited
              /\ last' = Outcome("InviteUserForm", [project |-> project], d, v)
    /\ UNCHANGED <<users, profiles, projects, subscribed, work, wiki, inflight>>

(***************************************************************************)
(* CreateTaskForm, CreateSubTaskForm, EditTaskForm                         *)
(***************************************************************************)
Val(s) == CHOOSE x \in s : TRUE

\* The choice 'None' of user_responsible and user.
NoneChoice == <<"N", "o", "n", "e">>

\* [('None','None')] + [(user.username, user.username) for user in users]
UserChoices(project) == {NoneChoice} \cup SubscriberNames(project)

\* Task(): every attribute a save path may leave unset is None.
NewTask ==
    [number |-> {}, name |-> <<>>, project |-> {}, parent_task_num |-> {},
     user_responsible |-> {}, expected_start_date |-> {},
     expected_end_date |-> {}, actual_start_date |-> {},
     actual_end_date |-> {}, is_complete |-> FALSE, is_complete_prop |-> {},
     created_by |-> {}, last_updated_by |-> {}, updated_by |-> {},
     effective_start_date |-> {}, effective_end_date |-> {},
     version_number |-> {}, is_current |-> {}]

\* clean() comparing with >= in place of >.
CreateTaskForm_clean_strict(sd, ed) ==
    IF ~ed.ok THEN Err("KeyError")
    ELSE IF ed.value = {} THEN Ok(<<>>)
    ELSE IF ~sd.ok THEN Err("KeyError")
    ELSE IF Val(sd.value) >= Val(ed.value) THEN Err("date_order")
    ELSE Ok(<<>>)

\* clean(): reads end_date and, when it is set, start_date.
CreateTaskForm_clean(sd, ed) ==
    IF ~ed.ok THEN Err("KeyError")
    ELSE IF ed.value = {} THEN Ok(<<>>)
    ELSE IF ~sd.ok THEN Err("KeyError")
    ELSE IF Val(sd.value) > Val(ed.value) THEN Err("date_order")
    ELSE Ok(<<>>)

CreateTaskForm_full_clean(project, d) ==
    LET nm == CharField(d.name, TRUE, TaskNameMaxLength)
        sd == DateField(d.start_date, TRUE)
        ed == DateField(d.end_date, FALSE)
        ur == ChoiceField(d.user_responsible, UserChoices(project), <<>>)
        c  == CreateTaskForm_clean(sd, ed)
        all == FieldErrors("name", nm) \cup FieldErrors("start_date", sd)
               \cup FieldErrors("end_date", ed)
               \cup FieldErrors("user_responsible", ur)
               \cup FieldErrors(NON_FIELD_ERRORS, c)
    IN  [errors |-> {e \in all : e[2] \notin Uncaught},
         fatal  |-> \E e \in all : e[2] \in Uncaught,
         cleaned |-> [name |-> nm.value, start_date |-> sd.value,
                      end_date |-> ed.value, user_responsible |-> ur.value]]

\* The user of that name, or None for the choice 'None'.
ChosenUser(choice) ==
    IF choice = NoneChoice THEN {} ELSE {Val(UsersNamed(choice))}

CreateTaskForm_save_without_db(project, user, cleaned) ==
    [NewTask EXCEPT
        !.name = cleaned.name,
        !.expected_start_date = cleaned.start_date,
        !.expected_end_date = cleaned.end_date,
        !.user_responsible = ChosenUser(cleaned.user_responsible),
        !.project = {project},
        !.created_by = {user},
        !.last_updated_by = {user}]

CreateTaskForm_save(project, user, cleaned) ==
    tasks' = Append(tasks, CreateTaskForm_save_without_db(project, user, cleaned))

CreateSubTaskForm_save(project, user, parent_task, cleaned) ==
    tasks' = Append(tasks,
        [CreateTaskForm_save_without_db(project, user, cleaned)
            EXCEPT !.parent_task_num = tasks[parent_task].number])

TaskNameInputs == {<<>>, <<"t">>}
ResponsibleInputs == {NoneChoice, <<"a">>, <<"b">>}

CreateTaskData ==
    [name : TaskNameInputs,
     start_date : {r \in RawDates : r.kind # "bad"},
     end_date : RawDates,
     user_responsible : ResponsibleInputs]

CreateTaskFormSubmit ==
    /\ Len(tasks) < MaxTasks
    /\ \E project \in 1..Len(projects), user \in 1..Len(users),
          d \in CreateTaskData :
          LET v == CreateTaskForm_full_clean(project, d)
          IN  /\ IF IsValid(v)
                 THEN CreateTaskForm_save(project, user, v.cleaned)
                 ELSE UNCHANGED tasks
              /\ last' = Outcome("CreateTaskForm",
                                 [project |-> project, user |-> user], d, v)
    /\ UNCHANGED <<membership, items, wiki, inflight>>

CreateSubTaskFormSubmit ==
    /\ Len(tasks) < MaxTasks
    /\ \E project \in 1..Len(projects), user \in 1..Len(users),
          parent_task \in 1..Len(tasks), d \in CreateTaskData :
          LET v == CreateTaskForm_full_clean(project, d)
          IN  /\ IF IsValid(v)
                 THEN CreateSubTaskForm_save(project, user, parent_task, v.cleaned)
                 ELSE UNCHANGED tasks
              /\ last' = Outcome("CreateSubTaskForm",
                                 [project |-> project, user |-> user,
                                  parent_task |-> parent_task], d, v)
    /\ UNCHANGED <<membership, items, wiki, inflight>>

\* is_complete = forms.BooleanField(): required, so the box must be ticked.
BooleanField(raw) == IF raw THEN Ok(TRUE) ELSE Err("required")

\* The fields of CreateTaskForm, then those EditTaskForm adds; clean() is
\* CreateTaskForm's.
EditTaskForm_full_clean(project, d) ==
    LET base == CreateTaskForm_full_clean(project, d)
        as == DateField(d.actual_start_date, FALSE)
        ae == DateField(d.actual_end_date, FALSE)
        ic == BooleanField(d.is_complete)
    IN  [errors |-> base.errors \cup FieldErrors("actual_start_date", as)
                    \cup FieldErrors("actual_end_date", ae)
                    \cup FieldErrors("is_complete", ic),
         fatal  |-> base.fatal,
         cleaned |-> [name |-> base.cleaned.name,
                      start_date |-> base.cleaned.start_date,
                      end_date |-> base.cleaned.end_date,
                      user_responsible |-> base.cleaned.user_responsible,
                      actual_start_date |-> as.value,
                      actual_end_date |-> ae.value,
                      is_complete |-> ic.value]]

\* save(): the task's row is overwritten; a date left empty keeps the
\* stored one.
EditTaskForm_save_row(row, user, cleaned) ==
    [row EXCEPT
        !.name = cleaned.name,
        !.user_responsible = ChosenUser(cleaned.user_responsible),
        !.expected_start_date = cleaned.start_date,
        !.expected_end_date =
            IF cleaned.end_date # {} THEN cleaned.end_date ELSE @,
        !.actual_start_date =
            IF cleaned.actual_start_date # {} THEN cleaned.actual_start_date ELSE @,
        !.actual_end_date =
            IF cleaned.actual_end_date # {} THEN cleaned.actual_end_date ELSE @,
        !.is_complete_prop = {cleaned.is_complete},
        !.updated_by = {user}]

\* A save() that keeps history: the stored row stops being current and the
\* edited task is added as its next version.
EditTaskForm_save_versioned(task, user, cleaned) ==
    tasks' = Append([tasks EXCEPT ![task].is_current = {FALSE}],
                    [EditTaskForm_save_row(tasks[task], user, cleaned) EXCEPT
                        !.version_number = {Len(tasks) + 1},
                        !.is_current = {TRUE}])

EditTaskForm_save(task, user, cleaned) ==
    tasks' = [tasks EXCEPT ![task] = EditTaskForm_save_row(@, user, cleaned)]

EditTaskData ==
    [name : {<<"t">>},
     start_date : {r \in RawDates : r.kind # "bad"},
     end_date : {r \in RawDates : r.kind # "bad"},
     user_responsible : {NoneChoice, <<"a">>},
     actual_start_date : {r \in RawDates : r.kind = "empty" \/ r.val = 1},
     actual_end_date : {r \in RawDates : r.kind = "empty"},
     is_complete : BOOLEAN]

EditTaskFormSubmit ==
    /\ \E project \in 1..Len(projects), task \in 1..Len(tasks),
          user \in 1..Len(users), d \in EditTaskData :
          LET v == EditTaskForm_full_clean(project, d)
          IN  /\ IF IsValid(v)
                 THEN EditTaskForm_save(task, user, v.cleaned)
                 ELSE UNCHANGED tasks
              /\ last' = Outcome("EditTaskForm",
                                 [project |-> project, user |-> user,
                                  task |-> task], d, v)
    /\ UNCHANGED <<membership, items, wiki, inflight>>

(***************************************************************************)
(* CreateTaskItemForm, EditTaskItemForm                                    *)
(***************************************************************************)
\* A submitted decimal: nothing, text that is no number, or the number val.
RawTimes ==
    [kind : {"empty", "bad"}, val : {0}]
        \cup [kind : {"number"}, val : (0 - 1)..MaxTime]

\* DojoDecimalField(required = r)
DecimalField(raw, required) ==
    IF raw.kind = "empty"
    THEN IF required THEN Err("required") ELSE Ok({})
    ELSE IF raw.kind = "bad" THEN Err("invalid")
    ELSE Ok({raw.val})

\* unit_choices: hours, days or months.
unit_choices == {"hours", "days", "months"}

NewTaskItem ==
    [number |-> {}, name |-> <<>>, project |-> {}, task_num |-> {},
     user |-> {}, expected_time |-> {}, actual_time |-> {}, unit |-> "",
     is_complete |-> FALSE, created_by |-> {}, last_updated_by |-> {},
     effective_start_date |-> {}, effective_end_date |-> {},
     version_number |-> {}, is_current |-> {}]

\* clean() comparing with < in place of <=.
CreateTaskItemForm_clean_zero_allowed(tm) ==
    IF ~tm.ok THEN Err("KeyError")
    ELSE IF Val(tm.value) < 0 THEN Err("time_not_positive")
    ELSE Ok(<<>>)

\* clean(): reads time.
CreateTaskItemForm_clean(tm) ==
    IF ~tm.ok THEN Err("KeyError")
    ELSE IF Val(tm.value) <= 0 THEN Err("time_not_positive")
    ELSE Ok(<<>>)

CreateTaskItemForm_full_clean(task, d) ==
    LET nm == CharField(d.item_name, TRUE, TaskNameMaxLength)
        us == ChoiceField(d.user, UserChoices(Val(tasks[task].project)), <<>>)
        tm == DecimalField(d.time, TRUE)
        un == ChoiceField(d.units, unit_choices, "")
        c  == CreateTaskItemForm_clean(tm)
        all == FieldErrors("item_name", nm) \cup FieldErrors("user", us)
               \cup FieldErrors("time", tm) \cup FieldErrors("units", un)
               \cup FieldErrors(NON_FIELD_ERRORS, c)
    IN  [errors |-> {e \in all : e[2] \notin Uncaught},
         fatal  |-> \E e \in all : e[2] \in Uncaught,
         cleaned |-> [item_name |-> nm.value, user |-> us.value,
                      time |-> tm.value, units |-> un.value]]

CreateTaskItemForm_save(project, user, task, cleaned) ==
    items' = Append(items,
        [NewTaskItem EXCEPT
            !.name = cleaned.item_name,
            !.project = {project},
            !.created_by = {user},
            !.last_updated_by = {user},
            !.task_num = tasks[task].number,
            !.user = ChosenUser(cleaned.user),
            !.expected_time = cleaned.time,
            !.unit = cleaned.units])

UnitInputs == {"", "hours", "weeks"}

CreateTaskItemData ==
    [item_name : TaskNameInputs, user : ResponsibleInputs,
     time : RawTimes, units : UnitInputs]

CreateTaskItemFormSubmit ==
    /\ Len(items) < MaxItems
    /\ \E project \in 1..Len(projects), user \in 1..Len(users),
          task \in 1..Len(tasks), d \in CreateTaskItemData :
          LET v == CreateTaskItemForm_full_clean(task, d)
          IN  /\ IF IsValid(v)
                 THEN CreateTaskItemForm_save(project, user, task, v.cleaned)
                 ELSE UNCHANGED items
              /\ last' = Outcome("CreateTaskItemForm",
                                 [project |-> project, user |-> user,
                                  task |-> task], d, v)
    /\ UNCHANGED <<membership, tasks, wiki, inflight>>

\* A forms.Form: the fields' own clean only.
EditTaskItemForm_full_clean(taskitem, d) ==
    LET nm == IF d.name = <<>> THEN Err("required") ELSE Ok(d.name)
        us == ChoiceField(d.user, UserChoices(Val(items[taskitem].project)), <<>>)
        et == DecimalField(d.expected_time, TRUE)
        at == DecimalField(d.actual_time, FALSE)
        un == ChoiceField(d.unit, unit_choices, "")
        ic == BooleanField(d.is_complete)
    IN  [errors |-> FieldErrors("name", nm) \cup FieldErrors("user", us)
                    \cup FieldErrors("expected_time", et)
                    \cup FieldErrors("actual_time", at)
                    \cup FieldErrors("unit", un)
                    \cup FieldErrors("is_complete", ic),
         fatal  |-> FALSE,
         cleaned |-> [name |-> nm.value, user |-> us.value,
                      expected_time |-> et.value, actual_time |-> at.value,
                      unit |-> un.value, is_complete |-> ic.value]]

EditTaskItemForm_save(taskitem, cleaned) ==
    items' = [items EXCEPT ![taskitem] =
        [@ EXCEPT
            !.name = cleaned.name,
            !.user = ChosenUser(cleaned.user),
            !.expected_time = cleaned.expected_time,
            !.actual_time = cleaned.actual_time,
            !.unit = cleaned.unit,
            !.is_complete = cleaned.is_complete]]

EditTaskItemData ==
    [name : {<<"t">>}, user : {NoneChoice, <<"a">>},
     expected_time : RawTimes,
     actual_time : {r \in RawTimes : r.kind = "empty" \/ r.val = 1},
     unit : {"hours", "days"}, is_complete : BOOLEAN]

EditTaskItemFormSubmit ==
    /\ \E taskitem \in 1..Len(items), user \in 1..Len(users),
          d \in EditTaskItemData :
          LET v == EditTaskItemForm_full_clean(taskitem, d)
          IN  /\ IF IsValid(v)
                 THEN EditTaskItemForm_save(taskitem, v.cleaned)
                 ELSE UNCHANGED items
              /\ last' = Outcome("EditTaskItemForm",
                                 [user |-> user, taskitem |-> taskitem], d, v)
    /\ UNCHANGED <<membership, tasks, wiki, inflight>>

(***************************************************************************)
(* CreateWikiPageForm, EditWikiPageForm                                    *)
(***************************************************************************)
\* DojoCharField() and DojoTextArea(): required, of any length.
TextField(raw) == IF raw = "" THEN Err("required") ELSE Ok(raw)

CreateWikiPageForm_full_clean(d) ==
    LET ti == TextField(d.title)
        tx == TextField(d.text)
    IN  [errors |-> FieldErrors("title", ti) \cup FieldErrors("text", tx),
         fatal  |-> FALSE,
         cleaned |-> [title |-> ti.value, text |-> tx.value]]

\* WikiPageRevision(wiki_text = text) of the page, by the user.
NewRevision(page, user, text) ==
    [wiki_page |-> {page}, user |-> {user}, wiki_text |-> text, html_text |-> ""]

\* save(): the page, its first revision, then the page again, pointing at
\* the revision.
CreateWikiPageForm_save(project, user, cleaned) ==
    /\ revisions' = Append(revisions,
          NewRevision(Len(pages) + 1, user, cleaned.text))
    /\ pages' = Append(pages,
          [name |-> "", title |-> cleaned.title, project |-> {project},
           current_revision |-> {Len(revisions) + 1}])

TextInputs == {"", "x", "y"}

CreateWikiPageData == [title : {"", "T"}, text : TextInputs]

CreateWikiPageFormSubmit ==
    /\ Len(pages) < MaxPages
    /\ Len(revisions) < MaxRevisions
    /\ \E project \in 1..Len(projects), user \in 1..Len(users),
          d \in CreateWikiPageData :
          LET v == CreateWikiPageForm_full_clean(d)
          IN  /\ IF IsValid(v)
                 THEN CreateWikiPageForm_save(project, user, v.cleaned)
                 ELSE UNCHANGED <<pages, revisions>>
              /\ last' = Outcome("CreateWikiPageForm",
                                 [project |-> project, user |-> user], d, v)
    /\ UNCHANGED <<membership, work, inflight>>

EditWikiPageForm_full_clean(d) ==
    LET tx == TextField(d.text)
    IN  [errors |-> FieldErrors("text", tx), fatal |-> FALSE,
         cleaned |-> [text |-> tx.value]]

\* A save() that rewrites the text of the current revision.
EditWikiPageForm_save_in_place(user, page, cleaned) ==
    /\ revisions' = [revisions EXCEPT
          ![Val(pages[page].current_revision)].wiki_text = cleaned.text]
    /\ pages' = pages

\* save(): a new revision of the page, then the page, pointing at it.
EditWikiPageForm_save(user, page, cleaned) ==
    /\ revisions' = Append(revisions, NewRevision(page, user, cleaned.text))
    /\ pages' = [pages EXCEPT ![page].current_revision = {Len(revisions) + 1}]

EditWikiPageData == [text : TextInputs]

EditWikiPageFormSubmit ==
    /\ Len(revisions) < MaxRevisions
    /\ \E user \in 1..Len(users), page \in 1..Len(pages),
          d \in EditWikiPageData :
          LET v == EditWikiPageForm_full_clean(d)
          IN  /\ IF IsValid(v)
                 THEN EditWikiPageForm_save(user, page, v.cleaned)
                 ELSE UNCHANGED <<pages, revisions>>
              /\ last' = Outcome("EditWikiPageForm",
                                 [user |-> user, page |-> page], d, v)
    /\ UNCHANGED <<membership, work, inflight>>

(***************************************************************************)
(* The saves of the wiki forms, one write at a time.  A request runs from  *)
(* its first write to its last with no other request in between.           *)
(***************************************************************************)
\* The rows of inflight but the i-th.
Remove(s, i) == SubSeq(s, 1, i - 1) \o SubSeq(s, i + 1, Len(s))

\* CreateWikiPageForm.save, first write: page.save(), of a page on which
\* current_revision has not been assigned.
CreateWikiPageForm_save_page ==
    /\ inflight = <<>>
    /\ Len(pages) < MaxPages
    /\ Len(revisions) < MaxRevisions
    /\ \E project \in 1..Len(projects), user \in 1..Len(users),
          d \in CreateWikiPageData :
          LET v == CreateWikiPageForm_full_clean(d)
          IN  /\ IsValid(v)
              /\ pages' = Append(pages,
                    [name |-> "", title |-> v.cleaned.title,
                     project |-> {project}, current_revision |-> {}])
              /\ inflight' = <<[form |-> "CreateWikiPageForm",
                                pc |-> "page_rev.save",
                                ctx |-> [project |-> project, user |-> user],
                                data |-> d, page |-> Len(pages) + 1,
                                page_rev |-> 0]>>
    /\ UNCHANGED <<membership, work, revisions, last>>

\* Second write: page_rev.save(), the first revision of the page.
CreateWikiPageForm_save_page_rev ==
    /\ \E i \in 1..Len(inflight) :
          LET r == inflight[i]
          IN  /\ r.form = "CreateWikiPageForm" /\ r.pc = "page_rev.save"
              /\ revisions' = Append(revisions,
                    NewRevision(r.page, r.ctx.user, r.data.text))
              /\ inflight' = [inflight EXCEPT
                    ![i].pc = "page.save", ![i].page_rev = Len(revisions) + 1]
    /\ UNCHANGED <<membership, work, pages, last>>

\* Third write: page.save() again, current_revision being the revision.
CreateWikiPageForm_save_current_revision ==
    /\ \E i \in 1..Len(inflight) :
          LET r == inflight[i]
          IN  /\ r.form = "CreateWikiPageForm" /\ r.pc = "page.save"
              /\ pages' = [pages EXCEPT
                    ![r.page].current_revision = {r.page_rev}]
              /\ inflight' = Remove(inflight, i)
              /\ last' = Outcome("CreateWikiPageForm", r.ctx, r.data,
                                 CreateWikiPageForm_full_clean(r.data))
    /\ UNCHANGED <<membership, work, revisions>>

\* EditWikiPageForm.save, first write: page_rev.save(), a new revision of
\* the page.
EditWikiPageForm_save_page_rev ==
    /\ inflight = <<>>
    /\ Len(revisions) < MaxRevisions
    /\ \E user \in 1..Len(users), page \in 1..Len(pages),
          d \in EditWikiPageData :
          LET v == EditWikiPageForm_full_clean(d)
          IN  /\ IsValid(v)
              /\ revisions' = Append(revisions,
                    NewRevision(page, user, v.cleaned.text))
              /\ inflight' = <<[form |-> "EditWikiPageForm",
                                pc |-> "page.save",
                                ctx |-> [user |-> user, page |-> page],
                                data |-> d, page |-> page,
                                page_rev |-> Len(revisions) + 1]>>
    /\ UNCHANGED <<membership, work, pages, last>>

\* Second write: self.page.save(), current_revision being the new revision.
EditWikiPageForm_save_page ==
    /\ \E i \in 1..Len(inflight) :
          LET r == inflight[i]
          IN  /\ r.form = "EditWikiPageForm" /\ r.pc = "page.save"
              /\ pages' = [pages EXCEPT
                    ![r.page].current_revision = {r.page_rev}]
              /\ inflight' = Remove(inflight, i)
              /\ last' = Outcome("EditWikiPageForm", r.ctx, r.data,
                                 EditWikiPageForm_full_clean(r.data))
    /\ UNCHANGED <<membership, work, revisions>>

(***************************************************************************)
(* CreateProjectForm with the existence check and the insert as two steps  *)
(* of a request, so that requests overlap.  A request that validated       *)
(* carries checked, the number of Project rows there were when             *)
(* is_valid_shortname looked.                                              *)
(***************************************************************************)
\* is_valid(): the form is validated against the store as it is now; a
\* form that fails is answered with its errors.
CreateProjectForm_is_valid ==
    /\ Len(inflight) < MaxRequests
    /\ Len(projects) + Len(inflight) < MaxProjects
    /\ \E user \in 1..Len(users), d \in CreateProjectData :
          LET v == CreateProjectForm_full_clean(d)
          IN  IF IsValid(v)
              THEN /\ inflight' = Append(inflight,
                         [form |-> "CreateProjectForm", pc |-> "save",
                          ctx |-> [user |-> user, checked |-> Len(projects)],
                          data |-> d, errors |-> v.errors, fatal |-> v.fatal,
                          cleaned |-> v.cleaned])
                   /\ UNCHANGED last
              ELSE /\ last' = Outcome("CreateProjectForm",
                                      [user |-> user, checked |-> Len(projects)],
                                      d, v)
                   /\ UNCHANGED inflight
    /\ UNCHANGED <<membership, work, wiki>>

\* save(), of a request that validated: nothing is looked up again.
CreateProjectForm_save_request ==
    /\ \E i \in 1..Len(inflight) :
          LET r == inflight[i]
          IN  /\ r.form = "CreateProjectForm" /\ r.pc = "save"
              /\ CreateProjectForm_save(r.ctx.user, r.cleaned)
              /\ inflight' = Remove(inflight, i)
              /\ last' = Outcome("CreateProjectForm", r.ctx, r.data, r)
    /\ UNCHANGED <<users, profiles, invited, work, wiki>>

(***************************************************************************)
(* Specifications.                                                         *)
(***************************************************************************)
NoSubmission ==
    [form |-> "", ctx |-> <<>>, data |-> <<>>, errors |-> {}, fatal |-> FALSE,
     saved |-> FALSE]

\* An empty store.
Init ==
    /\ users = <<>> /\ profiles = <<>> /\ projects = <<>>
    /\ subscribed = <<>> /\ invited = <<>>
    /\ tasks = <<>> /\ items = <<>> /\ pages = <<>> /\ revisions = <<>>
    /\ last = NoSubmission
    /\ inflight = <<>>

\* Accounts, projects and invitations.
NextMembership ==
    \/ UserCreationFormSubmit
    \/ CreateProjectFormSubmit
    \/ InviteUserFormSubmit

SpecMembership == Init /\ [][NextMembership]_vars

\* A store in which user a has registered and created project a, and the
\* project has one task, numbered 1.
SeedTask ==
    [CreateTaskForm_save_without_db(1, 1,
        [name |-> <<"t">>, start_date |-> {1}, end_date |-> {1},
         user_responsible |-> NoneChoice])
     EXCEPT !.number = {1}]

InitWork ==
    /\ users = <<[username |-> <<"a">>, email |-> <<>>]>>
    /\ profiles = <<[user |-> 1]>>
    /\ projects = <<[shortname |-> <<"a">>, name |-> <<"n">>, owner |-> 1,
                     start_date |-> {1}]>>
    /\ subscribed = <<[user |-> 1, project |-> 1, group |-> "Owner"]>>
    /\ invited = <<>>
    /\ tasks = <<SeedTask>>
    /\ items = <<>> /\ pages = <<>> /\ revisions = <<>>
    /\ last = NoSubmission
    /\ inflight = <<>>

\* Creation of tasks and subtasks.
NextTask ==
    \/ CreateTaskFormSubmit
    \/ CreateSubTaskFormSubmit

SpecTask == InitWork /\ [][NextTask]_vars

\* Edits of the project's task.
SpecTaskEdit == InitWork /\ [][EditTaskFormSubmit]_vars

\* Creation of task items.
SpecTaskItem == InitWork /\ [][CreateTaskItemFormSubmit]_vars

\* The same store with one task item, as CreateTaskItemForm stores it.
SeedTaskItem ==
    [NewTaskItem EXCEPT
        !.name = <<"t">>, !.project = {1}, !.created_by = {1},
        !.last_updated_by = {1}, !.task_num = {1}, !.expected_time = {1},
        !.unit = "hours"]

InitTaskItemEdit ==
    /\ users = <<[username |-> <<"a">>, email |-> <<>>]>>
    /\ profiles = <<[user |-> 1]>>
    /\ projects = <<[shortname |-> <<"a">>, name |-> <<"n">>, owner |-> 1,
                     start_date |-> {1}]>>
    /\ subscribed = <<[user |-> 1, project |-> 1, group |-> "Owner"]>>
    /\ invited = <<>>
    /\ tasks = <<SeedTask>>
    /\ items = <<SeedTaskItem>>
    /\ pages = <<>> /\ revisions = <<>>
    /\ last = NoSubmission
    /\ inflight = <<>>

\* Edits of the task's item.
SpecTaskItemEdit == InitTaskItemEdit /\ [][EditTaskItemFormSubmit]_vars

\* Wiki pages and their revisions.
NextWiki ==
    \/ CreateWikiPageFormSubmit
    \/ EditWikiPageFormSubmit

SpecWiki == InitWork /\ [][NextWiki]_vars

\* Wiki pages and their revisions, write by write.
NextWikiWrites ==
    \/ CreateWikiPageForm_save_page
    \/ CreateWikiPageForm_save_page_rev
    \/ CreateWikiPageForm_save_current_revision
    \/ EditWikiPageForm_save_page_rev
    \/ EditWikiPageForm_save_page

SpecWikiWrites == InitWork /\ [][NextWikiWrites]_vars

\* Two registered users and no project; CreateProjectForm requests overlap.
InitProjectRace ==
    /\ users = <<[username |-> <<"a">>, email |-> <<>>],
                 [username |-> <<"b">>, email |-> <<>>]>>
    /\ profiles = <<[user |-> 1], [user |-> 2]>>
    /\ projects = <<>> /\ subscribed = <<>> /\ invited = <<>>
    /\ tasks = <<>> /\ items = <<>> /\ pages = <<>> /\ revisions = <<>>
    /\ last = NoSubmission
    /\ inflight = <<>>

NextProjectRace ==
    \/ CreateProjectForm_is_valid
    \/ CreateProjectForm_save_request

SpecProjectRace == InitProjectRace /\ [][NextProjectRace]_vars

\* Tasks and task items, created and edited: on the store of one task and
\* one item, one creation at most, then the edit of one row.
Started == last # NoSubmission

Created ==
    /\ last.form \in {"CreateTaskForm", "CreateSubTaskForm", "CreateTaskItemForm"}
    /\ last.saved

NextWork ==
    \/ ~Started /\ CreateTaskFormSubmit
    \/ ~Started /\ CreateSubTaskFormSubmit
    \/ ~Started /\ CreateTaskItemFormSubmit
    \/ (~Started \/ Created) /\ EditTaskFormSubmit
    \/ (~Started \/ Created) /\ EditTaskItemFormSubmit

SpecWork == InitTaskItemEdit /\ [][NextWork]_vars

\* Every form, from the empty store.
Next ==
    \/ UserCreationFormSubmit
    \/ CreateProjectFormSubmit
    \/ InviteUserFormSubmit
    \/ CreateTaskFormSubmit
    \/ CreateSubTaskFormSubmit
    \/ EditTaskFormSubmit
    \/ CreateTaskItemFormSubmit
    \/ EditTaskItemFormSubmit
    \/ CreateWikiPageFormSubmit
    \/ EditWikiPageFormSubmit

Spec == Init /\ [][Next]_vars

(***************************************************************************)
(* Properties.  Every step of a specification is one submission, described *)
(* by last'; the unprimed tables are the store the form validated against. *)
(***************************************************************************)
Submitted(form) == last'.form = form

ErrorsOn(l, field) == {e[2] : e \in {x \in l.errors : x[1] = field}}

\* The submission was turned down with exactly one error on the field, one
\* of codes, and wrote nothing.
RejectedAmong(field, codes) ==
    /\ Cardinality(ErrorsOn(last', field)) = 1
    /\ ErrorsOn(last', field) \subseteq codes
    /\ ~last'.fatal /\ ~last'.saved
    /\ UNCHANGED <<membership, work, wiki>>

RejectedWith(field, code) == RejectedAmong(field, {code})

CreateProjectOthersValid(d) ==
    /\ CharField(d.name, TRUE, NameMaxLength).ok
    /\ DateField(d.start_date, TRUE).ok
    /\ DateField(d.end_date, FALSE).ok

\* The store gained exactly one Project of that shortname owned by the
\* submitting user and exactly one Owner subscription of that user to it.
ProjectCreated(user, sn) ==
    /\ last'.saved /\ ~last'.fatal /\ last'.errors = {}
    /\ Len(projects') = Len(projects) + 1
    /\ SubSeq(projects', 1, Len(projects)) = projects
    /\ projects'[Len(projects')].shortname = sn
    /\ projects'[Len(projects')].owner = user
    /\ Len(subscribed') = Len(subscribed) + 1
    /\ SubSeq(subscribed', 1, Len(subscribed)) = subscribed
    /\ subscribed'[Len(subscribed')] =
          [user |-> user, project |-> Len(projects'), group |-> "Owner"]
    /\ UNCHANGED <<users, profiles, invited, work, wiki>>

\* C1 as stated: for every submitted shortname (the form's other fields
\* valid) one of three outcomes: no match of ^\w+$, an error on the form of
\* the shortname (it is missing, or has other characters) and nothing
\* written; a match that is taken, uniqueness error and nothing written;
\* otherwise one Project and one Owner SubscribedUser are created.
C1_AsStated ==
    [][Submitted("CreateProjectForm")
         /\ CreateProjectOthersValid(last'.data) =>
       LET sn == last'.data.shortname
       IN  IF ~alnum_re(sn)
           THEN RejectedAmong("shortname", {"required", "format"})
           ELSE IF ProjectsNamed(sn) # {} THEN RejectedWith("shortname", "taken")
           ELSE ProjectCreated(last'.ctx.user, sn)]_vars

\* C1 amended: for every submitted shortname and every store state, one of
\* four outcomes: a shortname longer than 20 characters fails with a length
\* error; otherwise one that does not match ^\w+$ fails with a format error
\* (the required-field error when it is empty); otherwise one that is taken
\* fails with the uniqueness error; each of these writes nothing; otherwise,
\* the other fields being valid, exactly one Project owned by the submitting
\* user and one Owner SubscribedUser of that user and project are created.
C1_Outcomes ==
    [][Submitted("CreateProjectForm") =>
       LET sn == last'.data.shortname
       IN  IF sn = <<>> THEN RejectedWith("shortname", "required")
           ELSE IF Len(sn) > ShortnameMaxLength
           THEN RejectedWith("shortname", "max_length")
           ELSE IF ~alnum_re(sn) THEN RejectedWith("shortname", "format")
           ELSE IF ProjectsNamed(sn) # {} THEN RejectedWith("shortname", "taken")
           ELSE IF CreateProjectOthersValid(last'.data)
           THEN ProjectCreated(last'.ctx.user, sn)
           ELSE ~last'.saved /\ UNCHANGED <<membership, work, wiki>>]_vars

\* A second project was created while another shortname was already stored.
C1_Witness ==
    /\ last.form = "CreateProjectForm" /\ last.saved
    /\ Len(projects) = 2 /\ Len(subscribed) = 2
    /\ projects[2].shortname = last.data.shortname

\* C2 as stated: an InviteUserForm whose username names a user neither
\* invited to nor subscribed to the project validates for each group among
\* Owner, Participant, Viewer, and save adds exactly one InvitedUser row of
\* that user, project and group; an unknown, invited or subscribed user fails.
C2_InviteOutcomes ==
    [][Submitted("InviteUserForm") /\ last'.data.group \in {"Owner", "Participant", "Viewer"} =>
       LET found == UsersNamed(last'.data.username)
           user == CHOOSE u \in found : TRUE
           project == last'.ctx.project
       IN  IF found = {} THEN RejectedWith("username", "no_such_user")
           ELSE IF InvitesOf(user, project) # {}
           THEN RejectedWith("username", "already_invited")
           ELSE IF SubscriptionsOf(user, project) # {}
           THEN RejectedWith("username", "already_subscribed")
           ELSE /\ last'.saved
                /\ invited' = Append(invited,
                      [user |-> user, project |-> project,
                       group |-> last'.data.group])]_vars

UserCreated(name) ==
    /\ last'.saved /\ ~last'.fatal /\ last'.errors = {}
    /\ Len(users') = Len(users) + 1
    /\ SubSeq(users', 1, Len(users)) = users
    /\ users'[Len(users')].username = name
    /\ profiles' = Append(profiles, [user |-> Len(users')])

\* C6 as stated: a UserCreationForm with two equal (valid) passwords and a
\* username that matches ^\w+$ and is not taken validates and creates exactly
\* one user and one profile of that user, whether project_name is a valid
\* unused shortname or empty.
C6_Registers ==
    [][/\ Submitted("UserCreationForm")
       /\ CharField(last'.data.password1, TRUE, PasswordMaxLength).ok
       /\ last'.data.password1 = last'.data.password2
       /\ CharField(last'.data.username, TRUE, UsernameMaxLength).ok
       /\ alnum_re(last'.data.username)
       /\ UsersNamed(last'.data.username) = {}
       /\ \/ last'.data.project_name = <<>>
          \/ /\ Len(last'.data.project_name) <= ProjectNameMaxLength
             /\ alnum_re(last'.data.project_name)
             /\ ProjectsNamed(last'.data.project_name) = {}
       => UserCreated(last'.data.username)]_vars

\* C7 as stated: a UserCreationForm whose password1 differs from password2
\* fails validation with a form-level error, whatever username and
\* project_name are, and creates no user and no profile.
C7_Mismatch ==
    [][Submitted("UserCreationForm")
         /\ last'.data.password1 # last'.data.password2 =>
       /\ ~last'.fatal /\ ~last'.saved
       /\ ErrorsOn(last', NON_FIELD_ERRORS) = {"password_mismatch"}
       /\ UNCHANGED <<membership, work, wiki>>]_vars

\* C3 as stated: every stored Task whose expected_end_date is set has
\* expected_start_date <= expected_end_date, also after an edit that submits
\* a new start_date and leaves end_date empty.
C3_DatesOrdered ==
    \A i \in 1..Len(tasks) :
        tasks[i].expected_end_date # {} =>
            Val(tasks[i].expected_start_date) <= Val(tasks[i].expected_end_date)

\* C4 as stated: every stored TaskItem has expected_time > 0, also after an
\* EditTaskItemForm save.
C4_TimePositive ==
    \A i \in 1..Len(items) : Val(items[i].expected_time) > 0

\* C5: each EditWikiPageForm save adds exactly one WikiPageRevision, of that
\* page and with the submitted text, after the earlier ones and leaving them
\* as they were, and leaves the page's current_revision at the revision just
\* added, so that current_revision.wiki_text is the submitted text; the
\* other pages are as they were.
C5_EditAppends ==
    [][Submitted("EditWikiPageForm") /\ last'.saved =>
       LET page == last'.ctx.page
           new == Len(revisions) + 1
       IN  /\ Len(revisions') = new
           /\ SubSeq(revisions', 1, Len(revisions)) = revisions
           /\ revisions'[new].wiki_page = {page}
           /\ pages'[page].current_revision = {new}
           /\ revisions'[Val(pages'[page].current_revision)].wiki_text
                 = last'.data.text
           /\ Len(pages') = Len(pages)
           /\ \A p \in 1..Len(pages) : p # page => pages'[p] = pages[p]]_vars

\* A page edited twice, with two different texts: three revisions of the
\* page, the last of them current.
C5_Witness ==
    /\ last.form = "EditWikiPageForm" /\ last.saved
    /\ Len(revisions) = 3
    /\ \A r \in 1..3 : revisions[r].wiki_page = {1}
    /\ revisions[2].wiki_text # revisions[3].wiki_text
    /\ pages[1].current_revision = {3}

\* C8: a CreateTaskForm or CreateSubTaskForm with valid name and start_date
\* fails validation, storing nothing, when end_date is a date before
\* start_date; when end_date is absent or a date not before start_date
\* (the same date included) it validates, the remaining field
\* user_responsible being one of the offered choices, and save stores
\* exactly one new Task, of the form's project and with the submitted
\* start_date as expected_start_date.
C8_CreateTaskDates ==
    [][(/\ last'.form \in {"CreateTaskForm", "CreateSubTaskForm"}
        /\ CharField(last'.data.name, TRUE, TaskNameMaxLength).ok
        /\ last'.data.start_date.kind = "date"
        /\ last'.data.end_date.kind # "bad") =>
       LET sd == last'.data.start_date
           ed == last'.data.end_date
       IN  IF ed.kind = "date" /\ ed.val < sd.val
           THEN /\ ~last'.saved /\ ~last'.fatal
                /\ "date_order" \in ErrorsOn(last', NON_FIELD_ERRORS)
                /\ tasks' = tasks
           ELSE last'.data.user_responsible \in UserChoices(last'.ctx.project) =>
                /\ last'.saved
                /\ Len(tasks') = Len(tasks) + 1
                /\ SubSeq(tasks', 1, Len(tasks)) = tasks
                /\ tasks'[Len(tasks')].project = {last'.ctx.project}
                /\ tasks'[Len(tasks')].expected_start_date = {sd.val}]_vars

\* A subtask was stored whose end date is its start date.
C8_Witness ==
    /\ last.form = "CreateSubTaskForm" /\ last.saved
    /\ last.data.end_date = last.data.start_date
    /\ tasks[Len(tasks)].expected_end_date = tasks[Len(tasks)].expected_start_date
    /\ tasks[Len(tasks)].parent_task_num = {1}

C10_ErrorsReported ==
    /\ ~last.fatal
    /\ last.form # "" /\ ~last.saved => last.errors # {}

\* C11: in every stored state, the states between the writes of
\* CreateWikiPageForm.save and EditWikiPageForm.save included, every stored
\* WikiPage has a current_revision, which is a stored WikiPageRevision of
\* that page and the newest (the last saved) revision of that page.
C11_CurrentIsNewest ==
    \A p \in 1..Len(pages) :
        /\ pages[p].current_revision # {}
        /\ Val(pages[p].current_revision) \in 1..Len(revisions)
        /\ revisions[Val(pages[p].current_revision)].wiki_page = {p}
        /\ \A r \in 1..Len(revisions) :
              revisions[r].wiki_page = {p} =>
                  r <= Val(pages[p].current_revision)

\* No two stored projects share a shortname.
UniqueShortnames(table) ==
    \A p, q \in 1..Len(table) :
        table[p].shortname = table[q].shortname => p = q

\* C12: the save of a CreateProjectForm request inserts its project without
\* looking again.  When requests run one after the other, so that no
\* Project was inserted between a request's existence check and its own
\* insert, the new project's shortname is that of no stored project, and
\* stored shortnames that were distinct stay distinct.  (When two requests
\* with one unused shortname overlap, both validate and both save: the
\* state C12_Witness.)
C12_SerialUnique ==
    [][Len(projects') = Len(projects) + 1 =>
         /\ last'.form = "CreateProjectForm" /\ last'.saved
         /\ projects'[Len(projects')].shortname = last'.data.shortname
         /\ SubSeq(projects', 1, Len(projects)) = projects
         /\ last'.ctx.checked = Len(projects) =>
               /\ ProjectsNamed(last'.data.shortname) = {}
               /\ UniqueShortnames(projects) => UniqueShortnames(projects')]_vars

\* Two requests with the same shortname both validated and both saved: two
\* stored projects share the shortname, the second inserted by a request
\* that had checked before the first was inserted.
C12_Witness ==
    /\ Len(projects) = 2
    /\ projects[1].shortname = projects[2].shortname
    /\ Len(subscribed) = 2
    /\ last.form = "CreateProjectForm" /\ last.saved
    /\ last.ctx.checked = 0
    /\ inflight = <<>>

\* The versioning fields of a row.
Versioning(row) ==
    <<row.version_number, row.is_current, row.effective_start_date,
      row.effective_end_date>>

\* Every row of the table after the step has the versioning fields it had
\* before, or those of a row just constructed when the step added it.
VersioningUnassigned(before, after, fresh) ==
    \A n \in 1..Len(after) :
        Versioning(after[n]) =
            IF n <= Len(before) THEN Versioning(before[n])
            ELSE Versioning(fresh)

\* C13: EditTaskForm.save and EditTaskItemForm.save change the given row in
\* place: an edit leaves the number of Task rows and of TaskItem rows as it
\* was, keeps every other row, and keeps the row's number, project and
\* creator; and no save of a form (CreateTaskForm, CreateSubTaskForm,
\* EditTaskForm, CreateTaskItemForm, EditTaskItemForm) assigns
\* version_number, is_current, effective_start_date or effective_end_date:
\* they stay as the row's constructor left them.
C13_EditsInPlace ==
    [][/\ last'.form = "EditTaskForm" =>
             /\ Len(tasks') = Len(tasks) /\ items' = items
             /\ \A t \in 1..Len(tasks) :
                   /\ t # last'.ctx.task => tasks'[t] = tasks[t]
                   /\ tasks'[t].number = tasks[t].number
                   /\ tasks'[t].project = tasks[t].project
                   /\ tasks'[t].created_by = tasks[t].created_by
       /\ last'.form = "EditTaskItemForm" =>
             /\ Len(items') = Len(items) /\ tasks' = tasks
             /\ \A i \in 1..Len(items) :
                   /\ i # last'.ctx.taskitem => items'[i] = items[i]
                   /\ items'[i].number = items[i].number
                   /\ items'[i].task_num = items[i].task_num
                   /\ items'[i].created_by = items[i].created_by
       /\ VersioningUnassigned(tasks, tasks', NewTask)
       /\ VersioningUnassigned(items, items', NewTaskItem)]_vars

\* A task was created and then edited: two Task rows, the second one
\* changed by EditTaskForm.save, its versioning fields still unset.
C13_Witness ==
    /\ last.form = "EditTaskForm" /\ last.saved
    /\ last.ctx.task = 2
    /\ Len(tasks) = 2 /\ Len(items) = 1
    /\ tasks[2].updated_by # {}
    /\ tasks[2].expected_start_date = {2}
    /\ Versioning(tasks[2]) = <<{}, {}, {}, {}>>

====
